---- MODULE Spec2Model ----
(***************************************************************************)
(* Model of fix-zindex.py: a one-shot script that reads a template file,   *)
(* splits it on the literal "    {", rewrites the literal "zIndex: 0" in    *)
(* each shape fragment according to the fragment's type marker (and, for   *)
(* rectangles, its width/height), joins the fragments and overwrites the   *)
(* file.  Text is modelled as a sequence of one-character strings.         *)
(***************************************************************************)
EXTENDS Integers, Sequences, FiniteSets, TLC

VARIABLES
    file,          \* the text held by src/utils/templates.js on disk
    content,       \* the script's variable content
    shapes,        \* the script's variable shapes
    fixed_shapes,  \* the script's variable fixed_shapes
    console,       \* the lines printed so far
    pc,            \* the statement the script is about to execute
    run,           \* how many times the script has been started
    orig,          \* history: the file before the first run
    prev,          \* history: the file when the current run started
    cut,           \* history: where the current run was interrupted, if it was
    lost           \* history: the text a run interrupted while writing was writing

vars == <<file, content, shapes, fixed_shapes, console, pc, run, orig, prev, cut, lost>>

----------------------------------------------------------------------------
(* Bounds of the model.                                                    *)

\* Longest general document, counted in pieces of Pieces.
MaxPieces == 3
\* Widths and heights range this far on both sides of each band boundary.
DimSlack == 1
\* Number of times the script is run on the same file.
MaxRuns == 2

----------------------------------------------------------------------------
(* Literals of the script.                                                 *)

Delim == <<" "," "," "," ","{">>
TextSQ == <<"t","y","p","e",":"," ","'","t","e","x","t","'">>
TextDQ == <<"t","y","p","e",":"," ","\"","t","e","x","t","\"">>
CircleSQ == <<"t","y","p","e",":"," ","'","c","i","r","c","l","e","'">>
CircleDQ == <<"t","y","p","e",":"," ","\"","c","i","r","c","l","e","\"">>
RectSQ == <<"t","y","p","e",":"," ","'","r","e","c","t","a","n","g","l","e","'">>
RectDQ == <<"t","y","p","e",":"," ","\"","r","e","c","t","a","n","g","l","e","\"">>
ZIndex0 == <<"z","I","n","d","e","x",":"," ","0">>
ZIndexKey == <<"z","I","n","d","e","x",":"," ">>
WidthKey == <<"w","i","d","t","h",":"," ">>
HeightKey == <<"h","e","i","g","h","t",":"," ">>

DigitChars == <<"0","1","2","3","4","5","6","7","8","9">>

ZText == 10
ZCircle == 5
ZHuge == 1
ZLarge == 1
ZMedium == 2
ZSmall == 3
HugeSize == 10000
LargeSize == 8000
MediumSize == 5000

Summary ==
    << "Fixed zIndex values!",
       "Text shapes: zIndex 10",
       "Circle shapes: zIndex 5",
       "Rectangle backgrounds (>=8000): zIndex 1",
       "Rectangle containers (>=5000): zIndex 2",
       "Rectangle content: zIndex 3" >>

----------------------------------------------------------------------------
(* String primitives of Python used by the script.                         *)

IsDigit(c) == \E k \in 1..10 : DigitChars[k] = c

DigitVal(c) == (CHOOSE k \in 1..10 : DigitChars[k] = c) - 1

\* s[i : i + len(p)] == p
MatchAt(s, p, i) ==
    /\ i >= 1
    /\ i + Len(p) - 1 <= Len(s)
    /\ SubSeq(s, i, i + Len(p) - 1) = p

\* s.find(p) + 1: the index of the leftmost occurrence of p in s, 0 when none.
Find(s, p) ==
    LET hits == {i \in 1..(Len(s) - Len(p) + 1) : MatchAt(s, p, i)}
    IN  IF hits = {} THEN 0 ELSE CHOOSE i \in hits : \A j \in hits : i <= j

\* p in s
Contains(s, p) == Find(s, p) # 0

\* s.split(d): leftmost, non-overlapping occurrences of d separate the pieces.
RECURSIVE StrSplit(_, _)
StrSplit(s, d) ==
    LET i == Find(s, d)
    IN  IF i = 0
        THEN <<s>>
        ELSE <<SubSeq(s, 1, i - 1)>> \o StrSplit(SubSeq(s, i + Len(d), Len(s)), d)

\* Variant: ''.join(parts), the delimiter forgotten.
RECURSIVE StrJoinBare(_, _)
StrJoinBare(d, parts) ==
    IF Len(parts) = 0 THEN <<>>
    ELSE parts[1] \o StrJoinBare(d, Tail(parts))

\* d.join(parts)
RECURSIVE StrJoin(_, _)
StrJoin(d, parts) ==
    IF Len(parts) = 0 THEN <<>>
    ELSE IF Len(parts) = 1 THEN parts[1]
    ELSE parts[1] \o d \o StrJoin(d, Tail(parts))

\* Variant: re.sub(pat, repl, s, count=1), the leftmost occurrence only.
ReSubFirst(pat, repl, s) ==
    LET i == Find(s, pat)
    IN  IF i = 0
        THEN s
        ELSE SubSeq(s, 1, i - 1) \o repl \o SubSeq(s, i + Len(pat), Len(s))

\* re.sub(pat, repl, s) for a literal pattern: count defaults to 0, so every
\* leftmost non-overlapping occurrence is replaced.
RECURSIVE ReSub(_, _, _)
ReSub(pat, repl, s) ==
    LET i == Find(s, pat)
    IN  IF i = 0
        THEN s
        ELSE SubSeq(s, 1, i - 1) \o repl
               \o ReSub(pat, repl, SubSeq(s, i + Len(pat), Len(s)))

\* The end of the greedy run of digits that starts at index i of s.
RECURSIVE DigitsEnd(_, _)
DigitsEnd(s, i) ==
    IF i + 1 <= Len(s) /\ IsDigit(s[i + 1]) THEN DigitsEnd(s, i + 1) ELSE i

\* re.search(key + r'(\d+)', s).group(1): the digits of the leftmost place where
\* key is followed by at least one digit; <<>> stands for None (no match).
ReSearchDigits(key, s) ==
    LET hits == {i \in 1..(Len(s) - Len(key)) :
                    MatchAt(s, key, i) /\ IsDigit(s[i + Len(key)])}
    IN  IF hits = {}
        THEN <<>>
        ELSE LET i == CHOOSE h \in hits : \A j \in hits : h <= j
                 b == i + Len(key)
             IN  SubSeq(s, b, DigitsEnd(s, b))

\* int(digits)
RECURSIVE IntOf(_)
IntOf(ds) ==
    IF Len(ds) = 0 THEN 0
    ELSE 10 * IntOf(SubSeq(ds, 1, Len(ds) - 1)) + DigitVal(ds[Len(ds)])

\* str(n) for n >= 0
RECURSIVE StrOf(_)
StrOf(n) ==
    IF n < 10 THEN <<DigitChars[n + 1]>>
    ELSE StrOf(n \div 10) \o <<DigitChars[(n % 10) + 1]>>

----------------------------------------------------------------------------
(* The body of the loop over shapes.                                       *)

\* Variant: the value appended to the placeholder, 'zIndex: 0<z>'.
ZLiteralPadded(z) == ZIndex0 \o StrOf(z)

\* The replacement literal 'zIndex: <z>'
ZLiteral(z) == ZIndexKey \o StrOf(z)

IsText(shape) == Contains(shape, TextSQ) \/ Contains(shape, TextDQ)

IsCircle(shape) == Contains(shape, CircleSQ) \/ Contains(shape, CircleDQ)

IsRectangle(shape) == Contains(shape, RectSQ) \/ Contains(shape, RectDQ)

\* Variant: the bands compared with > instead of >=.
RectZStrict(width, height) ==
    IF width > HugeSize \/ height > HugeSize THEN ZHuge
    ELSE IF width > LargeSize \/ height > LargeSize THEN ZLarge
    ELSE IF width > MediumSize \/ height > MediumSize THEN ZMedium
    ELSE ZSmall

\* The if/elif chain over width and height.
RectZ(width, height) ==
    IF width >= HugeSize \/ height >= HugeSize THEN ZHuge
    ELSE IF width >= LargeSize \/ height >= LargeSize THEN ZLarge
    ELSE IF width >= MediumSize \/ height >= MediumSize THEN ZMedium
    ELSE ZSmall

\* Variant: "or" for "and"; a missing field counts as 0.
FixRectangleEitherMatch(shape) ==
    LET width_match == ReSearchDigits(WidthKey, shape)
        height_match == ReSearchDigits(HeightKey, shape)
    IN  IF width_match # <<>> \/ height_match # <<>>
        THEN ReSub(ZIndex0,
                   ZLiteral(RectZ(IntOf(width_match), IntOf(height_match))),
                   shape)
        ELSE shape

\* The rectangle branch: lines 24-45.
FixRectangle(shape) ==
    LET width_match == ReSearchDigits(WidthKey, shape)
        height_match == ReSearchDigits(HeightKey, shape)
    IN  IF width_match # <<>> /\ height_match # <<>>
        THEN ReSub(ZIndex0,
                   ZLiteral(RectZ(IntOf(width_match), IntOf(height_match))),
                   shape)
        ELSE shape

\* Variant: the circle test ahead of the text test.
FixShapeCircleFirst(shape) ==
    IF IsCircle(shape) THEN ReSub(ZIndex0, ZLiteral(ZCircle), shape)
    ELSE IF IsText(shape) THEN ReSub(ZIndex0, ZLiteral(ZText), shape)
    ELSE IF IsRectangle(shape) THEN FixRectangle(shape)
    ELSE shape

\* Variant: a fragment with no marker handled as a rectangle.
FixShapeDefaultRect(shape) ==
    IF IsText(shape) THEN ReSub(ZIndex0, ZLiteral(ZText), shape)
    ELSE IF IsCircle(shape) THEN ReSub(ZIndex0, ZLiteral(ZCircle), shape)
    ELSE FixRectangle(shape)

\* Variant: the circle branch substituting once.
FixShapeCircleOnce(shape) ==
    IF IsText(shape) THEN ReSub(ZIndex0, ZLiteral(ZText), shape)
    ELSE IF IsCircle(shape) THEN ReSubFirst(ZIndex0, ZLiteral(ZCircle), shape)
    ELSE IF IsRectangle(shape) THEN FixRectangle(shape)
    ELSE shape

\* The body of the loop: lines 13-45.
FixShape(shape) ==
    IF IsText(shape) THEN ReSub(ZIndex0, ZLiteral(ZText), shape)
    ELSE IF IsCircle(shape) THEN ReSub(ZIndex0, ZLiteral(ZCircle), shape)
    ELSE IF IsRectangle(shape) THEN FixRectangle(shape)
    ELSE shape

\* Variant: the beginning fixed like a shape.
KeepBeginningFixed(parts) == <<FixShape(parts[1])>>

\* fixed_shapes = [shapes[0]]
KeepBeginning(parts) == <<parts[1]>>

\* Variant: the file opened without truncation.
OpenedForUpdate(old) == old

\* open(..., 'w') truncates the file.
OpenedForWrite(old) == <<>>

\* Lines 9-50 as one function of the text read: split, fix each shape, join.
Rewrite(doc) ==
    LET parts == StrSplit(doc, Delim)
    IN  StrJoin(Delim,
                KeepBeginning(parts)
                  \o [i \in 1..(Len(parts) - 1) |-> FixShape(parts[i + 1])])

----------------------------------------------------------------------------
(* Input documents.                                                        *)

RECURSIVE Concat(_)
Concat(ps) == IF Len(ps) = 0 THEN <<>> ELSE ps[1] \o Concat(Tail(ps))

Markers == {TextSQ, TextDQ, CircleSQ, CircleDQ, RectSQ, RectDQ}

\* The pieces general documents are built from: the delimiter, a text marker, a
\* circle body, a small rectangle body, the placeholder, a digit and a space.
Pieces ==
    { Delim,
      TextSQ,
      CircleDQ \o ZIndex0,
      RectSQ \o WidthKey \o <<"7">> \o HeightKey \o <<"9">> \o ZIndex0,
      ZIndex0,
      <<"0">>,
      <<" ">> }

GeneralDocs ==
    { Concat(ps) : ps \in UNION { [1..n -> Pieces] : n \in 0..MaxPieces } }

DimValues ==
    { t + d : t \in {MediumSize, LargeSize, HugeSize}, d \in (0 - DimSlack)..DimSlack }

DimFields(key) == { <<>> } \cup { key \o StrOf(v) : v \in DimValues }

\* One shape with at most one type marker, an optional width, an optional height
\* and the placeholder.
ShapeDocs ==
    { Delim \o m \o w \o h \o ZIndex0 :
        m \in Markers \cup { <<>> },
        w \in DimFields(WidthKey),
        h \in DimFields(HeightKey) }

\* One shape with up to two type markers and the placeholder, once, twice or
\* followed by a digit.
MarkerDocs ==
    { Delim \o m1 \o m2 \o ZIndex0 \o t :
        m1 \in Markers \cup { <<>> },
        m2 \in Markers \cup { <<>> },
        t \in { <<>>, ZIndex0, <<"0">> } }

Docs == GeneralDocs \cup ShapeDocs \cup MarkerDocs

----------------------------------------------------------------------------
(* The script as a state machine.                                          *)

Init ==
    /\ file \in Docs
    /\ orig = file
    /\ prev = file
    /\ content = <<>>
    /\ shapes = <<>>
    /\ fixed_shapes = <<>>
    /\ console = <<>>
    /\ pc = "read"
    /\ run = 1
    /\ cut = "none"
    /\ lost = <<>>

\* with open(...) as f: content = f.read()
ReadFile ==
    /\ pc = "read"
    /\ content' = file
    /\ pc' = "split"
    /\ UNCHANGED <<file, shapes, fixed_shapes, console, run, orig, prev, cut, lost>>

\* shapes = content.split('    {'); fixed_shapes = [shapes[0]]
SplitShapes ==
    /\ pc = "split"
    /\ shapes' = StrSplit(content, Delim)
    /\ fixed_shapes' = KeepBeginning(shapes')
    /\ pc' = IF Len(shapes') > 1 THEN "loop" ELSE "join"
    /\ UNCHANGED <<file, content, console, run, orig, prev, cut, lost>>

\* One iteration of: for shape in shapes[1:]: ...; fixed_shapes.append(shape)
FixNextShape ==
    /\ pc = "loop"
    /\ fixed_shapes' = Append(fixed_shapes, FixShape(shapes[Len(fixed_shapes) + 1]))
    /\ pc' = IF Len(fixed_shapes') < Len(shapes) THEN "loop" ELSE "join"
    /\ UNCHANGED <<file, content, shapes, console, run, orig, prev, cut, lost>>

\* content = '    {'.join(fixed_shapes)
JoinShapes ==
    /\ pc = "join"
    /\ content' = StrJoin(Delim, fixed_shapes)
    /\ pc' = "open"
    /\ UNCHANGED <<file, shapes, fixed_shapes, console, run, orig, prev, cut, lost>>

\* with open(..., 'w') as f:
OpenForWrite ==
    /\ pc = "open"
    /\ file' = OpenedForWrite(file)
    /\ pc' = "write"
    /\ UNCHANGED <<content, shapes, fixed_shapes, console, run, orig, prev, cut, lost>>

\* f.write(content), and the close that ends the with block
WriteFile ==
    /\ pc = "write"
    /\ file' = content
    /\ pc' = "print"
    /\ UNCHANGED <<content, shapes, fixed_shapes, console, run, orig, prev, cut, lost>>

\* the six print calls
PrintSummary ==
    /\ pc = "print"
    /\ console' = Summary
    /\ pc' = "done"
    /\ UNCHANGED <<file, content, shapes, fixed_shapes, run, orig, prev, cut, lost>>

\* The process is killed.  Its memory is gone; the file keeps what reached it:
\* while the file is open for writing, any part of content short of the whole.
Interrupt ==
    /\ pc \in {"read", "split", "loop", "join", "open", "write", "print"}
    /\ IF pc = "write"
       THEN \E k \in 0..Len(content) :
                /\ k < Len(content) \/ k = 0
                /\ file' = SubSeq(content, 1, k)
       ELSE file' = file
    /\ pc' = "interrupted"
    /\ content' = <<>>
    /\ shapes' = <<>>
    /\ fixed_shapes' = <<>>
    /\ cut' = IF pc = "write" THEN "writing"
              ELSE IF pc = "print" THEN "written" ELSE "unopened"
    /\ lost' = IF pc = "write" THEN content ELSE <<>>
    /\ UNCHANGED <<console, run, orig, prev>>

\* The operator runs the script again on the file it left.
Rerun ==
    /\ pc = "done"
    /\ run < MaxRuns
    /\ run' = run + 1
    /\ prev' = file
    /\ pc' = "read"
    /\ content' = <<>>
    /\ shapes' = <<>>
    /\ fixed_shapes' = <<>>
    /\ console' = <<>>
    /\ UNCHANGED <<file, orig, cut, lost>>

Next ==
    \/ ReadFile
    \/ SplitShapes
    \/ FixNextShape
    \/ JoinShapes
    \/ OpenForWrite
    \/ WriteFile
    \/ PrintSummary
    \/ Interrupt
    \/ Rerun

Spec == Init /\ [][Next]_vars

----------------------------------------------------------------------------
(* Vocabulary of the properties, stated on the text itself.                *)

\* The places where p occurs in s.
Occurrences(s, p) == {i \in 1..Len(s) : MatchAt(s, p, i)}

Occurs(s, p) == Occurrences(s, p) # {}

HasPlaceholder(s) == Occurs(s, ZIndex0)

HasTextMarker(s) == Occurs(s, TextSQ) \/ Occurs(s, TextDQ)

HasCircleMarker(s) == Occurs(s, CircleSQ) \/ Occurs(s, CircleDQ)

HasRectMarker(s) == Occurs(s, RectSQ) \/ Occurs(s, RectDQ)

Lit10 == <<"z","I","n","d","e","x",":"," ","1","0">>
Lit5 == <<"z","I","n","d","e","x",":"," ","5">>
Lit1 == <<"z","I","n","d","e","x",":"," ","1">>
Lit2 == <<"z","I","n","d","e","x",":"," ","2">>
Lit3 == <<"z","I","n","d","e","x",":"," ","3">>

AssignedLiterals == {Lit10, Lit5, Lit1, Lit2, Lit3}

\* s with its leftmost placeholder replaced by lit and nothing else changed.
FirstReplaced(s, lit) ==
    LET occ == Occurrences(s, ZIndex0)
    IN  IF occ = {}
        THEN s
        ELSE LET p == CHOOSE i \in occ : \A j \in occ : i <= j
             IN  SubSeq(s, 1, p - 1) \o lit \o SubSeq(s, p + Len(ZIndex0), Len(s))

\* s with every placeholder replaced by lit and nothing else changed, built from
\* the right: two placeholders never overlap, since "z" only starts one.
RECURSIVE AllReplaced(_, _)
AllReplaced(s, lit) ==
    LET occ == Occurrences(s, ZIndex0)
    IN  IF occ = {}
        THEN s
        ELSE LET p == CHOOSE i \in occ : \A j \in occ : i >= j
             IN  AllReplaced(SubSeq(s, 1, p - 1), lit) \o lit
                   \o SubSeq(s, p + Len(ZIndex0), Len(s))

\* The shape fragments the loop has dealt with so far: shapes[i] went in,
\* fixed_shapes[i] came out.
Processed == 2..Len(fixed_shapes)

\* The run has written its result.
Written == pc \in {"print", "done"}

----------------------------------------------------------------------------
(* C1. Original statement: in every shape fragment at most one substitution *)
(* is made, of the first occurrence of "zIndex: 0"; later occurrences and   *)
(* all other text are unchanged.                                            *)
C1_OnlyFirstOccurrenceReplaced ==
    \A i \in Processed :
        \/ fixed_shapes[i] = shapes[i]
        \/ \E lit \in AssignedLiterals : fixed_shapes[i] = FirstReplaced(shapes[i], lit)

(* C1, amended: in every shape fragment either nothing changes or every     *)
(* occurrence of "zIndex: 0" is replaced by one and the same assigned       *)
(* literal; all other text of the fragment is unchanged.                    *)
C1_EveryOccurrenceReplaced ==
    \A i \in Processed :
        \/ fixed_shapes[i] = shapes[i]
        \/ \E lit \in AssignedLiterals : fixed_shapes[i] = AllReplaced(shapes[i], lit)

\* A processed fragment that held the placeholder twice and was rewritten.
C1_Witness ==
    \E i \in Processed :
        /\ Cardinality(Occurrences(shapes[i], ZIndex0)) >= 2
        /\ fixed_shapes[i] # shapes[i]

----------------------------------------------------------------------------
(* C2. Classification follows the precedence text, circle, rectangle: a     *)
(* fragment with a text marker gets 10 for every placeholder even when it   *)
(* also holds a circle or rectangle marker; a fragment with a circle marker *)
(* and no text marker gets 5 even when it also holds a rectangle marker;    *)
(* only a fragment with neither is left to the rectangle rules (1, 2, 3 or  *)
(* unchanged).                                                              *)
C2_Precedence ==
    \A i \in Processed :
        LET s == shapes[i]
            t == fixed_shapes[i]
        IN  /\ HasTextMarker(s) => t = AllReplaced(s, Lit10)
            /\ (~HasTextMarker(s) /\ HasCircleMarker(s)) => t = AllReplaced(s, Lit5)
            /\ (~HasTextMarker(s) /\ ~HasCircleMarker(s))
                  => t \in {s, AllReplaced(s, Lit1), AllReplaced(s, Lit2),
                            AllReplaced(s, Lit3)}
            /\ (HasPlaceholder(s) /\ (HasTextMarker(s) \/ HasCircleMarker(s)))
                  => t # s

\* A processed fragment with a circle marker ahead of a text marker and the
\* placeholder, which came out with 10.
C2_Witness ==
    \E i \in Processed :
        /\ HasTextMarker(shapes[i])
        /\ HasCircleMarker(shapes[i])
        /\ \E c \in Occurrences(shapes[i], CircleSQ) \cup Occurrences(shapes[i], CircleDQ) :
             \E x \in Occurrences(shapes[i], TextSQ) \cup Occurrences(shapes[i], TextDQ) :
                c < x
        /\ HasPlaceholder(shapes[i])
        /\ Occurs(fixed_shapes[i], Lit10)

----------------------------------------------------------------------------
(* C3. A rectangle fragment (no text or circle marker) whose first width    *)
(* and height matches give w and h gets 1 when max(w, h) >= 8000, 2 when    *)
(* 5000 <= max(w, h) < 8000 and 3 when max(w, h) < 5000.                    *)
BandOf(m) == IF m >= 8000 THEN Lit1 ELSE IF m >= 5000 THEN Lit2 ELSE Lit3

MaxOf(a, b) == IF a >= b THEN a ELSE b

IsSizedRectangle(s) ==
    /\ HasRectMarker(s)
    /\ ~HasTextMarker(s)
    /\ ~HasCircleMarker(s)
    /\ ReSearchDigits(WidthKey, s) # <<>>
    /\ ReSearchDigits(HeightKey, s) # <<>>

C3_RectangleBands ==
    \A i \in Processed :
        LET s == shapes[i]
        IN  IsSizedRectangle(s) =>
              fixed_shapes[i] =
                AllReplaced(s, BandOf(MaxOf(IntOf(ReSearchDigits(WidthKey, s)),
                                            IntOf(ReSearchDigits(HeightKey, s)))))

\* A rectangle whose width is exactly 5000 and whose height is below it came
\* out with 2.
C3_Witness ==
    \E i \in Processed :
        /\ IsSizedRectangle(shapes[i])
        /\ HasPlaceholder(shapes[i])
        /\ IntOf(ReSearchDigits(WidthKey, shapes[i])) = 5000
        /\ IntOf(ReSearchDigits(HeightKey, shapes[i])) < 5000
        /\ Occurs(fixed_shapes[i], Lit2)

----------------------------------------------------------------------------
(* C4. The header (the text before the first delimiter, or the whole        *)
(* document when there is none) is a prefix of what is written, whatever it *)
(* holds; a document with no delimiter is written back as it was.           *)
HeaderOf(doc) ==
    LET occ == Occurrences(doc, Delim)
    IN  IF occ = {}
        THEN doc
        ELSE SubSeq(doc, 1, (CHOOSE i \in occ : \A j \in occ : i <= j) - 1)

C4_HeaderPreserved ==
    Written =>
        /\ Len(file) >= Len(HeaderOf(prev))
        /\ SubSeq(file, 1, Len(HeaderOf(prev))) = HeaderOf(prev)
        /\ ~Occurs(prev, Delim) => file = prev

\* A run has written a document whose header holds a type marker and the
\* placeholder and is followed by a delimiter.
C4_Witness ==
    /\ Written
    /\ Occurs(prev, Delim)
    /\ HasPlaceholder(HeaderOf(prev))
    /\ HasTextMarker(HeaderOf(prev)) \/ HasCircleMarker(HeaderOf(prev))
          \/ HasRectMarker(HeaderOf(prev))

----------------------------------------------------------------------------
(* C5. A shape fragment with none of the six type markers comes out as it   *)
(* went in, even with the placeholder and width and height fields in it.    *)
C5_UnclassifiedUnchanged ==
    \A i \in Processed :
        (~HasTextMarker(shapes[i]) /\ ~HasCircleMarker(shapes[i])
            /\ ~HasRectMarker(shapes[i]))
          => fixed_shapes[i] = shapes[i]

\* A processed fragment with no marker, the placeholder, a width and a height.
C5_Witness ==
    \E i \in Processed :
        /\ ~HasTextMarker(shapes[i])
        /\ ~HasCircleMarker(shapes[i])
        /\ ~HasRectMarker(shapes[i])
        /\ HasPlaceholder(shapes[i])
        /\ ReSearchDigits(WidthKey, shapes[i]) # <<>>
        /\ ReSearchDigits(HeightKey, shapes[i]) # <<>>

----------------------------------------------------------------------------
(* C6. A rectangle fragment (no text or circle marker) in which the width   *)
(* pattern or the height pattern has no match comes out as it went in, and  *)
(* the run goes on to the next statement.                                   *)
IsUnsizedRectangle(s) ==
    /\ HasRectMarker(s)
    /\ ~HasTextMarker(s)
    /\ ~HasCircleMarker(s)
    /\ \/ ~\E i \in Occurrences(s, WidthKey) :
              i + Len(WidthKey) <= Len(s) /\ IsDigit(s[i + Len(WidthKey)])
       \/ ~\E i \in Occurrences(s, HeightKey) :
              i + Len(HeightKey) <= Len(s) /\ IsDigit(s[i + Len(HeightKey)])

C6_UnsizedRectangleUnchanged ==
    \A i \in Processed :
        IsUnsizedRectangle(shapes[i]) =>
            /\ fixed_shapes[i] = shapes[i]
            /\ pc \in {"loop", "join", "open", "write", "print", "done"}

\* A processed rectangle with a width, no height and the placeholder.
C6_Witness ==
    \E i \in Processed :
        /\ IsUnsizedRectangle(shapes[i])
        /\ ReSearchDigits(WidthKey, shapes[i]) # <<>>
        /\ HasPlaceholder(shapes[i])

----------------------------------------------------------------------------
(* C7. The rewrite is idempotent: a run on the output of a run changes no   *)
(* fragment and writes back the text it read.                               *)
C7_Idempotent ==
    run >= 2 =>
        /\ \A i \in Processed : fixed_shapes[i] = shapes[i]
        /\ Written => file = prev

\* A second run has written, on a file the first run had changed.
C7_Witness ==
    /\ run >= 2
    /\ Written
    /\ prev # orig

----------------------------------------------------------------------------
(* C8. Reassembly keeps the structure: the text written is the header       *)
(* followed by the rewritten fragments in their original order, each        *)
(* preceded by the delimiter; it splits into as many fragments as the text  *)
(* read; and when no fragment was rewritten it is the text read.            *)
WithDelimiters(parts) ==
    Concat([i \in 1..Len(parts) |-> IF i = 1 THEN parts[1] ELSE Delim \o parts[i]])

Joined == pc \in {"open", "write", "print", "done"}

C8_Reassembly ==
    Joined =>
        /\ prev = WithDelimiters(shapes)
        /\ Len(fixed_shapes) = Len(shapes)
        /\ fixed_shapes[1] = shapes[1]
        /\ \A i \in Processed :
              \/ fixed_shapes[i] = shapes[i]
              \/ \E lit \in AssignedLiterals : fixed_shapes[i] = AllReplaced(shapes[i], lit)
        /\ content = WithDelimiters(fixed_shapes)
        /\ Cardinality(Occurrences(content, Delim)) = Cardinality(Occurrences(prev, Delim))
        /\ Len(StrSplit(content, Delim)) = Len(shapes)
        /\ StrSplit(content, Delim) = fixed_shapes
        /\ fixed_shapes = shapes => content = prev
        /\ Written => file = content

\* A run has written a document of two or more shape fragments, the last of
\* which it rewrote and an earlier one of which it did not.
C8_Witness ==
    /\ pc = "done"
    /\ Len(shapes) >= 3
    /\ fixed_shapes[Len(shapes)] # shapes[Len(shapes)]
    /\ \E i \in Processed : i < Len(shapes) /\ fixed_shapes[i] = shapes[i]

----------------------------------------------------------------------------
(* C9. Original statement: the file is read before any transformation, then *)
(* truncated and written once, and the summary is printed only after the    *)
(* write; a run interrupted between the opening for writing and the end of  *)
(* the write leaves the file holding neither the complete original nor the  *)
(* complete rewritten text.                                                 *)
IsPrefix(a, b) == Len(a) <= Len(b) /\ SubSeq(b, 1, Len(a)) = a

OrderOfUpdate ==
    /\ pc \in {"read", "split", "loop", "join", "open"} => file = prev
    /\ pc \in {"split", "loop", "join"} => content = prev
    /\ pc = "write" => file = <<>> /\ content = Rewrite(prev)
    /\ Written => file = content /\ content = Rewrite(prev)
    /\ console # <<>> => pc = "done"
    /\ pc = "done" => console = Summary
    /\ (pc = "interrupted" /\ cut = "unopened") => file = prev
    /\ (pc = "interrupted" /\ cut = "written") => file = Rewrite(prev)
    /\ (pc = "interrupted") = (cut # "none")

\* The run was interrupted with the file open for writing.
InterruptedWriting == pc = "interrupted" /\ cut = "writing"

\* The file is open for writing and the write has not completed.
InWriteWindow == pc = "write" \/ InterruptedWriting

\* The rewritten text of a run that is in the write window: what the run holds
\* in content, which is Rewrite(prev) by OrderOfUpdate.
BeingWritten == IF pc = "write" THEN content ELSE lost

C9_InterruptedWriteLosesBoth ==
    /\ OrderOfUpdate
    /\ InterruptedWriting => (file # prev /\ file # BeingWritten)

(* C9, amended: the same order of update; a run interrupted between the     *)
(* opening for writing and the end of the write leaves the file holding a   *)
(* part of the rewritten text that starts at its beginning and stops short  *)
(* of its end, which for a non-empty original is neither the complete       *)
(* original nor the complete rewritten text (an empty file is both).        *)
C9_InterruptedWriteNonEmpty ==
    /\ OrderOfUpdate
    /\ InWriteWindow =>
          /\ IsPrefix(file, BeingWritten)
          /\ prev # <<>> => (file # prev /\ file # BeingWritten)
          /\ prev = <<>> => (file = prev /\ file = BeingWritten)

\* A run of a non-empty file was interrupted with part of the text written.
C9_Witness ==
    /\ pc = "interrupted"
    /\ cut = "writing"
    /\ prev # <<>>
    /\ file # <<>>
    /\ lost # prev

----------------------------------------------------------------------------
(* C10. No rewritten fragment still holds the placeholder: a fragment       *)
(* classified as text, as circle, or as rectangle with both width and       *)
(* height matched comes out with no occurrence of "zIndex: 0", however many *)
(* it went in with.                                                         *)
IsRewritable(s) ==
    \/ HasTextMarker(s)
    \/ HasCircleMarker(s)
    \/ /\ HasRectMarker(s)
       /\ ReSearchDigits(WidthKey, s) # <<>>
       /\ ReSearchDigits(HeightKey, s) # <<>>

C10_NoPlaceholderLeft ==
    \A i \in Processed :
        IsRewritable(shapes[i]) => ~HasPlaceholder(fixed_shapes[i])

\* A rewritable fragment went in with the placeholder followed by another 0,
\* or with the placeholder three times.
C10_Witness ==
    \E i \in Processed :
        /\ IsRewritable(shapes[i])
        /\ \/ Occurs(shapes[i], ZIndex0 \o <<"0">>)
           \/ Cardinality(Occurrences(shapes[i], ZIndex0)) >= 3

====
